---- MODULE Spec2Model ----
(***************************************************************************)
(* State-machine model of the duplicate-marking pipeline of                *)
(* src/src/main.rs: main -> ImageSet::new (directory walk) ->              *)
(* ImageSet::sort -> ImageSet::mark_duplicates (hash, rename, log).        *)
(*                                                                         *)
(* Representation.                                                         *)
(*  - A path is a sequence of strings <<dir, c1, ..., ck>>: the directory  *)
(*    it lies in followed by the '.'-separated components of the file      *)
(*    name ("a.txt" is <<"a","txt">>, ".duplicate" is <<"","duplicate">>). *)
(*    A directory entry is the one-element sequence <<dir>>.               *)
(*  - A file content is a sequence of blocks of equal length; a block is   *)
(*    a sequence of strings.  Data blocks are <<"X">>, <<"Y">>; a line of  *)
(*    a duplicates.log is one block, built by LogLine.  The size of a      *)
(*    file is its number of blocks.                                        *)
(*  - Option<T> is a sequence of length 0 (None) or 1 (Some).              *)
(***************************************************************************)
EXTENDS Integers, Sequences, FiniteSets, TLC

\* src/src/main.rs:22
DUPLICATE_EXTENSION == "duplicate"

\* name of the per-directory log, src/src/main.rs:170
LogName == <<"duplicates", "log">>

----------------------------------------------------------------------------
(* Bounds of the model *)

\* largest number of files in the tree when the first run starts
MaxFiles == 4
\* number of times the program is run on the same tree
MaxRuns == 2

----------------------------------------------------------------------------
(* The directory tree: root, a visible subdirectory, a hidden subdirectory *)
(* of the root and a visible directory inside the hidden one.              *)

Root == "root"
Dirs == {"root", "sub", "hid", "hid_in"}

ParentDir(d) ==
  CASE d = "sub" -> <<"root">>
    [] d = "hid" -> <<"root">>
    [] d = "hid_in" -> <<"hid">>
    [] OTHER -> <<>>

RECURSIVE Ancestors(_)
Ancestors(d) ==
  IF ParentDir(d) = <<>> THEN {d} ELSE {d} \cup Ancestors(ParentDir(d)[1])

\* two contents of one data block each
X == << <<"X">> >>
Y == << <<"Y">> >>

VARIABLES
  fs,              \* the files on disk: path -> [content, btime, mtime]
  dirs,            \* the directories that exist
  fault,           \* dir -> "ok" | "denied" | "ioerr" | "noexec"
  rootName,        \* the components of the root directory's own name
  pc,              \* position of the process
  run,             \* number of the current run of the program
  warned,          \* main printed "Path ... does not exist"
  started,         \* the walker has yielded its first item
  stack,           \* walker: directories being listed, innermost last
  yielded,         \* walker: entries already yielded
  erred,           \* walker: directories whose read_dir error was yielded
  images,          \* ImageSet.images
  existing_count,  \* duplicate_count of ImageSet::new
  base_entry,      \* mark_duplicates
  candidate_dup,   \* mark_duplicates
  duplicate_count, \* mark_duplicates
  duplicate_size,  \* mark_duplicates
  disc,            \* history: path at discovery -> content at discovery
  digests,         \* history: the files digested in this run, in order
  error_kind,      \* history: the kind of the error the run panicked on
  renames,         \* history: the renames of this run, in order
  logged,          \* history: the log lines appended in this run, in order
  compared,        \* history: pairs of records whose hashes were compared
  written          \* history: the logs the previous run appended to

vars == <<fs, dirs, fault, rootName, pc, run, warned, started, stack, yielded,
          erred, images, existing_count, base_entry, candidate_dup,
          duplicate_count, duplicate_size, disc, digests, error_kind, renames,
          logged, compared, written>>

envVars == <<dirs, fault, rootName>>
walkVars == <<started, stack, yielded, erred>>
markVars == <<base_entry, candidate_dup, duplicate_count, duplicate_size>>
histVars == <<disc, digests, error_kind, renames, logged, compared, written>>

----------------------------------------------------------------------------
(* Paths and names *)

Dir(path) == path[1]
FileName(path) == Tail(path)
Last(s) == s[Len(s)]
Front(s) == SubSeq(s, 1, Len(s) - 1)

\* Path::extension: the part after the last '.', None when the name has no
\* '.' or only a leading one
Extension(path) ==
  LET name == FileName(path)
  IN IF Len(name) < 2 THEN <<>>
     ELSE IF Len(name) = 2 /\ name[1] = "" THEN <<>>
     ELSE <<Last(name)>>

\* str::starts_with('.') on a name given by its '.'-separated components
StartsWithDot(name) == Len(name) >= 2 /\ name[1] = ""

DirName(d) ==
  CASE d = Root -> rootName
    [] d = "sub" -> <<"sub">>
    [] d = "hid" -> <<"", "hid">>
    [] OTHER -> <<"in">>

is_hidden(entry) == StartsWithDot(DirName(entry[1]))

\* format!("{} is duplicate of {}", duplicate, original)
LogLine(duplicate, original) == duplicate \o <<" is duplicate of ">> \o original

Size(content) == Len(content)

\* Sha256 over the content, taken to be collision free
Sha256(content) == [alg |-> "sha256", of |-> content]

----------------------------------------------------------------------------
(* The trees the first run may start on *)

OldLog == <<LogLine(<<"root", "b", "txt", "duplicate">>, <<"root", "a", "txt">>)>>

\* the candidate files of the tree
SlotPath ==
  <<  <<"root", "a", "txt">>,
      <<"root", "b", "txt">>,
      <<"root", "c", "txt">>,
      <<"root", "duplicates", "log">>,
      <<"sub", "a", "txt">>,
      <<"hid", "a", "txt">>,
      <<"hid_in", "a", "txt">>,
      <<"root", "a", "txt", "duplicate">>,
      <<"root", "", "duplicate">>  >>

\* the contents each candidate file may have: a.txt and b.txt may be empty,
\* c.txt may be the copy of a log an earlier run wrote
SlotContents ==
  <<  {X, Y, <<>>},
      {X, Y, <<>>},
      {X, Y, OldLog},
      {X, Y},
      {X},
      {X},
      {X},
      {X},
      {X}  >>

Slots == DOMAIN SlotPath
AllContents == UNION {SlotContents[k] : k \in Slots}

\* the slots of the trees on which marking is explored, those among them that
\* take every time-stamp profile, the slots of the trees with files that
\* end in ".duplicate", and the slots of the trees on which the walk is
\* explored (hidden directories, faulty directories, hidden root)
MarkSlots == {1, 2, 3, 4, 5}
StampSlots == {1, 2, 3, 4}
SentinelSlots == {1, 2, 8, 9}
WalkSlots == {1, 5, 6, 7}

\* how the files are time-stamped: "same" gives every file the same creation
\* time, "fwd" is a platform without creation times whose modification times
\* grow with the slot, "rev" has creation times that fall with the slot and
\* modification times of zero
Profiles == {"same", "fwd", "rev"}

Stamp(profile, k) ==
  CASE profile = "same" -> [btime |-> <<1>>, mtime |-> 1]
    [] profile = "fwd" -> [btime |-> <<>>, mtime |-> k]
    [] OTHER -> [btime |-> <<Len(SlotPath) + 1 - k>>, mtime |-> 0]

\* the time stamp of a file the program creates
Now == Len(SlotPath) + 1

FileChoices ==
  UNION { {f \in [S -> AllContents] : \A k \in S : f[k] \in SlotContents[k]} :
          S \in {T \in SUBSET Slots : Cardinality(T) <= MaxFiles} }

FaultKinds == {"denied", "ioerr", "noexec"}

Over(slots) == {f \in FileChoices : DOMAIN f \subseteq slots}

\* a tree: its files, whether the root exists, the name of the root, the
\* time stamps and at most one faulty directory
Scenarios ==
  { [files |-> f, exists |-> TRUE, rootName |-> <<"pics">>, profile |-> "same",
     faultDir |-> <<>>, faultKind |-> "ok"] :
       f \in Over(MarkSlots) \cup Over(SentinelSlots) }
  \cup
  { [files |-> f, exists |-> TRUE, rootName |-> <<"pics">>, profile |-> pr,
     faultDir |-> <<>>, faultKind |-> "ok"] :
       f \in Over(StampSlots), pr \in Profiles }
  \cup
  { [files |-> f, exists |-> TRUE, rootName |-> rn, profile |-> "same",
     faultDir |-> <<d>>, faultKind |-> k] :
       f \in Over(WalkSlots), rn \in {<<"pics">>, <<"", "pics">>},
       d \in {"root", "sub", "hid"}, k \in FaultKinds }
  \cup
  { [files |-> f, exists |-> TRUE, rootName |-> rn, profile |-> "same",
     faultDir |-> <<>>, faultKind |-> "ok"] :
       f \in Over(WalkSlots), rn \in {<<"pics">>, <<"", "pics">>} }
  \cup
  { [files |-> <<>>, exists |-> FALSE, rootName |-> <<"pics">>,
     profile |-> "same", faultDir |-> <<>>, faultKind |-> "ok"] }

ScenarioDirs(sc) ==
  IF ~sc.exists THEN {}
  ELSE {Root}
       \cup UNION {Ancestors(Dir(SlotPath[k])) : k \in DOMAIN sc.files}
       \cup (IF sc.faultDir = <<>> THEN {} ELSE Ancestors(sc.faultDir[1]))

Init ==
  \E sc \in Scenarios :
    /\ fs = [p \in {SlotPath[k] : k \in DOMAIN sc.files} |->
               LET k == CHOOSE i \in DOMAIN sc.files : SlotPath[i] = p
               IN [content |-> sc.files[k],
                   btime |-> Stamp(sc.profile, k).btime,
                   mtime |-> Stamp(sc.profile, k).mtime]]
    /\ dirs = ScenarioDirs(sc)
    /\ fault = [d \in Dirs |-> IF sc.faultDir = <<d>> THEN sc.faultKind ELSE "ok"]
    /\ rootName = sc.rootName
    /\ pc = "main"
    /\ run = 1
    /\ warned = FALSE
    /\ started = FALSE
    /\ stack = <<>>
    /\ yielded = {}
    /\ erred = {}
    /\ images = <<>>
    /\ existing_count = 0
    /\ base_entry = 0
    /\ candidate_dup = 0
    /\ duplicate_count = 0
    /\ duplicate_size = 0
    /\ disc = <<>>
    /\ digests = <<>>
    /\ error_kind = <<>>
    /\ renames = <<>>
    /\ logged = <<>>
    /\ compared = {}
    /\ written = {}

----------------------------------------------------------------------------
(* main, src/src/main.rs:188-195: the check that the root exists *)

Main ==
  /\ pc = "main"
  /\ warned' = (Root \notin dirs)
  /\ pc' = "walk"
  /\ UNCHANGED <<fs, envVars, run, walkVars, images, existing_count, markVars,
                 histVars>>

----------------------------------------------------------------------------
(* ImageData, src/src/main.rs:25-70 *)

\* is_duplicate that recognises no extension
is_duplicate_never(image) == FALSE

\* ImageData::is_duplicate
is_duplicate(image) == Extension(image.path) = <<DUPLICATE_EXTENSION>>

\* get_create_time: the creation time, else the last modification time
get_create_time(metadata) ==
  IF metadata.btime # <<>> THEN metadata.btime[1] ELSE metadata.mtime

\* correct_zero_modification_date: the file system after the repair
correct_zero_modification_date(files, path, create_time) ==
  IF files[path].mtime = 0
  THEN [files EXCEPT ![path].mtime = create_time]
  ELSE files

\* ImageData::new; orig is a history field, the path at discovery
NewImageData(path) ==
  [path |-> path,
   create_time |-> get_create_time(fs[path]),
   size |-> Size(fs[path].content),
   hash |-> <<>>,
   orig |-> path]

\* hash that digests the file on every call
hash_uncached(files, image) ==
  IF image.path \notin DOMAIN files
  THEN [ok |-> FALSE, value |-> Sha256(<<>>), image |-> image, read |-> FALSE]
  ELSE LET h == Sha256(files[image.path].content)
       IN [ok |-> TRUE, value |-> h,
           image |-> [image EXCEPT !.hash = <<h>>], read |-> TRUE]

\* ImageData::hash on the files `files`: ok is FALSE when File::open fails,
\* image is the record afterwards, read tells whether the file was digested
hash(files, image) ==
  IF image.hash # <<>>
  THEN [ok |-> TRUE, value |-> image.hash[1], image |-> image, read |-> FALSE]
  ELSE IF image.path \notin DOMAIN files
  THEN [ok |-> FALSE, value |-> Sha256(<<>>), image |-> image, read |-> FALSE]
  ELSE LET h == Sha256(files[image.path].content)
       IN [ok |-> TRUE, value |-> h,
           image |-> [image EXCEPT !.hash = <<h>>], read |-> TRUE]

\* a rename to another extension than the one is_duplicate looks for
DuplicateName_dup(path) == Append(path, "dup")

\* the name ImageData::mark_duplicate renames to
DuplicateName(path) == Append(path, DUPLICATE_EXTENSION)

\* fs::rename: the file at `from` replaces whatever is at `to`
Rename(files, from, to) ==
  [p \in (DOMAIN files \ {from}) \cup {to} |->
     IF p = to THEN files[from] ELSE files[p]]

----------------------------------------------------------------------------
(* The walker of ImageSet::new, src/src/main.rs:98-113 *)

Children(d) == {c \in dirs : ParentDir(c) = <<d>>}

\* what reading directory d meets: its own fault, or no access when its
\* parent cannot be searched
ReadFault(d) ==
  IF fault[d] # "ok" THEN fault[d]
  ELSE IF ParentDir(d) # <<>> /\ fault[ParentDir(d)[1]] = "noexec" THEN "denied"
  ELSE "ok"

ReadFails(d) == ReadFault(d) \in {"denied", "ioerr"}

\* the entries read_dir lists for d
Entries(d) ==
  IF ReadFails(d) THEN {}
  ELSE {p \in DOMAIN fs : Dir(p) = d} \cup {<<c>> : c \in Children(d)}

\* the walker's stack after the directories with nothing left are popped
RECURSIVE Unwind(_)
Unwind(st) ==
  IF st = <<>> THEN st
  ELSE IF (ReadFails(Last(st)) /\ Last(st) \notin erred)
          \/ Entries(Last(st)) \ yielded # {}
  THEN st
  ELSE Unwind(Front(st))

\* a test that takes every error for a permission-denied one
is_permission_denied_any(kind) == TRUE

\* inner.kind() == ErrorKind::PermissionDenied, src/src/main.rs:104-105
is_permission_denied(kind) == kind = "denied"

\* the loop of ImageSet::new is left in a panic
Panic(kind) ==
  /\ pc' = "panic"
  /\ error_kind' = <<kind>>
  /\ UNCHANGED <<fs, images, existing_count, disc, digests>>

\* a directory entry that is descended into whatever its name
WalkDirectory_noprune(st, entry) ==
  /\ stack' = Append(st, entry[1])
  /\ pc' = "walk"
  /\ UNCHANGED <<fs, images, existing_count, disc, digests, error_kind>>

\* a directory entry, src/src/main.rs:114-120
WalkDirectory(st, entry) ==
  /\ stack' = IF is_hidden(entry) /\ Len(st) > 0 THEN st ELSE Append(st, entry[1])
  /\ pc' = "walk"
  /\ UNCHANGED <<fs, images, existing_count, disc, digests, error_kind>>

\* a file entry, src/src/main.rs:121-129
WalkFile(st, entry) ==
  /\ stack' = st
  /\ IF ReadFault(Dir(entry)) = "noexec"
     THEN Panic("PermissionDenied")
     ELSE LET image == NewImageData(entry)
          IN /\ fs' = correct_zero_modification_date(fs, entry, image.create_time)
             /\ pc' = "walk"
             /\ UNCHANGED <<digests, error_kind>>
             /\ IF is_duplicate(image)
                THEN /\ existing_count' = existing_count + 1
                     /\ UNCHANGED <<images, disc>>
                ELSE /\ images' = Append(images, image)
                     /\ disc' = disc @@ (entry :> fs[entry].content)
                     /\ UNCHANGED existing_count

\* one turn of the loop of ImageSet::new, src/src/main.rs:99-130
Walk ==
  /\ pc = "walk"
  /\ started' = TRUE
  /\ UNCHANGED <<envVars, run, warned, markVars, renames, logged, compared,
                 written>>
  /\ IF ~started
     THEN IF Root \notin dirs
          THEN /\ Panic("NotFound")
               /\ UNCHANGED <<stack, yielded, erred>>
          ELSE /\ WalkDirectory(<<>>, <<Root>>)
               /\ yielded' = yielded \cup {<<Root>>}
               /\ UNCHANGED erred
     ELSE LET st == Unwind(stack)
          IN IF st = <<>>
             THEN /\ pc' = "sort"
                  /\ stack' = st
                  /\ UNCHANGED <<yielded, erred, fs, images, existing_count,
                                 disc, digests, error_kind>>
             ELSE IF ReadFails(Last(st)) /\ Last(st) \notin erred
             THEN /\ erred' = erred \cup {Last(st)}
                  /\ stack' = st
                  /\ UNCHANGED yielded
                  /\ IF is_permission_denied(ReadFault(Last(st)))
                     THEN /\ pc' = "walk"
                          /\ UNCHANGED <<fs, images, existing_count, disc,
                                         digests, error_kind>>
                     ELSE Panic("Other")
             ELSE \E entry \in Entries(Last(st)) \ yielded :
                    /\ yielded' = yielded \cup {entry}
                    /\ UNCHANGED erred
                    /\ IF Len(entry) = 1
                       THEN WalkDirectory(st, entry)
                       ELSE WalkFile(st, entry)

----------------------------------------------------------------------------
(* ImageSet::sort, src/src/main.rs:135-137: a stable sort by size, then by *)
(* creation time                                                           *)

Less(a, b) ==
  \/ a.size < b.size
  \/ a.size = b.size /\ a.create_time < b.create_time

\* x put behind the last element that is not greater than it
RECURSIVE InsertSorted(_, _)
InsertSorted(x, s) ==
  IF s = <<>> THEN <<x>>
  ELSE IF Less(x, s[1]) THEN <<x>> \o s
  ELSE <<s[1]>> \o InsertSorted(x, Tail(s))

RECURSIVE SortImages(_)
SortImages(s) ==
  IF s = <<>> THEN <<>>
  ELSE InsertSorted(Last(s), SortImages(Front(s)))

Sort ==
  /\ pc = "sort"
  /\ images' = SortImages(images)
  /\ pc' = "base"
  /\ UNCHANGED <<fs, envVars, run, warned, walkVars, existing_count, markVars,
                 histVars>>

----------------------------------------------------------------------------
(* ImageSet::mark_duplicates, src/src/main.rs:139-165.  The indices keep   *)
(* the values of the code (from 0); images[i + 1] is the code's images[i]. *)

\* an inner loop that runs to the end of the records
SameSizeRun_any(imgs, base, candidate) == candidate < Len(imgs)

\* the condition of the inner loop, src/src/main.rs:154
SameSizeRun(imgs, base, candidate) ==
  candidate < Len(imgs) /\ imgs[candidate + 1].size = imgs[base + 1].size

\* an inner loop that starts at the first record
FirstCandidate_zero(base) == 0

\* where the inner loop starts, src/src/main.rs:153
FirstCandidate(base) == base + 1

\* the head of the outer loop, src/src/main.rs:143-153 and 164
Base ==
  /\ pc = "base"
  /\ IF base_entry >= Len(images)
     THEN /\ pc' = "done"
          /\ UNCHANGED <<base_entry, candidate_dup>>
     ELSE IF is_duplicate(images[base_entry + 1])
     THEN /\ base_entry' = base_entry + 1
          /\ pc' = "base"
          /\ UNCHANGED candidate_dup
     ELSE /\ candidate_dup' = FirstCandidate(base_entry)
          /\ pc' = "cand"
          /\ UNCHANGED base_entry
  /\ UNCHANGED <<fs, envVars, run, warned, walkVars, images, existing_count,
                 duplicate_count, duplicate_size, histVars>>

\* one turn of the inner loop up to the rename, src/src/main.rs:154-158 and 161:
\* the candidate's hash is taken before the base's
Candidate ==
  /\ pc = "cand"
  /\ UNCHANGED <<envVars, run, warned, walkVars, existing_count, disc, logged,
                 written>>
  /\ IF ~SameSizeRun(images, base_entry, candidate_dup)
     THEN /\ base_entry' = base_entry + 1
          /\ pc' = "base"
          /\ UNCHANGED <<fs, images, candidate_dup, duplicate_count,
                         duplicate_size, digests, error_kind, renames,
                         compared>>
     ELSE IF is_duplicate(images[candidate_dup + 1])
     THEN /\ candidate_dup' = candidate_dup + 1
          /\ pc' = "cand"
          /\ UNCHANGED <<fs, images, base_entry, duplicate_count,
                         duplicate_size, digests, error_kind, renames,
                         compared>>
     ELSE LET c == candidate_dup + 1
              b == base_entry + 1
              hc == hash(fs, images[c])
              imgs1 == [images EXCEPT ![c] = hc.image]
              hb == hash(fs, imgs1[b])
              imgs2 == [imgs1 EXCEPT ![b] = hb.image]
              read1 == IF hc.read
                       THEN Append(digests, [orig |-> images[c].orig,
                                             path |-> images[c].path])
                       ELSE digests
              read2 == IF hb.read
                       THEN Append(read1, [orig |-> images[b].orig,
                                           path |-> images[b].path])
                       ELSE read1
          IN IF ~hc.ok
             THEN /\ pc' = "panic"
                  /\ error_kind' = <<"NotFound">>
                  /\ UNCHANGED <<fs, images, markVars, digests, renames,
                                 compared>>
             ELSE IF ~hb.ok
             THEN /\ pc' = "panic"
                  /\ error_kind' = <<"NotFound">>
                  /\ images' = imgs1
                  /\ digests' = read1
                  /\ UNCHANGED <<fs, markVars, renames, compared>>
             ELSE /\ digests' = read2
                  /\ UNCHANGED error_kind
                  /\ compared' = compared \cup {<<images[b].orig, images[c].orig>>}
                  /\ UNCHANGED base_entry
                  /\ IF hc.value = hb.value
                     THEN LET old == imgs2[c].path
                              new == DuplicateName(old)
                          IN /\ fs' = Rename(fs, old, new)
                             /\ images' = [imgs2 EXCEPT ![c].path = new]
                             /\ duplicate_count' = duplicate_count + 1
                             /\ duplicate_size' = duplicate_size + imgs2[c].size
                             /\ renames' = Append(renames,
                                  [from |-> old, to |-> new,
                                   orig |-> imgs2[c].orig,
                                   of |-> imgs2[b].orig,
                                   bytes |-> Size(fs[old].content)])
                             /\ pc' = "log"
                             /\ UNCHANGED candidate_dup
                     ELSE /\ images' = imgs2
                          /\ candidate_dup' = candidate_dup + 1
                          /\ pc' = "cand"
                          /\ UNCHANGED <<fs, duplicate_count, duplicate_size,
                                         renames>>

\* add_to_logfile, src/src/main.rs:168-179: the log lies beside the duplicate
LogFilePath(duplicate) == <<Dir(duplicate)>> \o LogName

add_to_logfile(files, original, duplicate) ==
  LET logfile_path == LogFilePath(duplicate)
      log_line == LogLine(duplicate, original)
  IN IF logfile_path \in DOMAIN files
     THEN [files EXCEPT ![logfile_path].content = Append(@, log_line),
                        ![logfile_path].mtime = Now]
     ELSE files @@ (logfile_path :>
            [content |-> <<log_line>>, btime |-> <<Now>>, mtime |-> Now])

\* the rest of the turn, src/src/main.rs:159 and 161
Log ==
  /\ pc = "log"
  /\ LET original == images[base_entry + 1].path
         duplicate == images[candidate_dup + 1].path
     IN /\ fs' = add_to_logfile(fs, original, duplicate)
        /\ logged' = Append(logged,
             [log |-> LogFilePath(duplicate), duplicate |-> duplicate,
              original |-> original,
              dup_orig |-> images[candidate_dup + 1].orig,
              base_orig |-> images[base_entry + 1].orig])
  /\ candidate_dup' = candidate_dup + 1
  /\ pc' = "cand"
  /\ UNCHANGED <<envVars, run, warned, walkVars, images, existing_count,
                 base_entry, duplicate_count, duplicate_size, disc, digests,
                 error_kind, renames, compared, written>>

----------------------------------------------------------------------------
(* The program is run again on the tree the finished run left *)

Rerun ==
  /\ pc = "done"
  /\ run < MaxRuns
  /\ run' = run + 1
  /\ pc' = "main"
  /\ warned' = FALSE
  /\ started' = FALSE
  /\ stack' = <<>>
  /\ yielded' = {}
  /\ erred' = {}
  /\ images' = <<>>
  /\ existing_count' = 0
  /\ base_entry' = 0
  /\ candidate_dup' = 0
  /\ duplicate_count' = 0
  /\ duplicate_size' = 0
  /\ disc' = <<>>
  /\ digests' = <<>>
  /\ error_kind' = <<>>
  /\ renames' = <<>>
  /\ logged' = <<>>
  /\ compared' = {}
  /\ written' = {logged[k].log : k \in DOMAIN logged}
  /\ UNCHANGED <<fs, envVars>>

Next == Main \/ Walk \/ Sort \/ Base \/ Candidate \/ Log \/ Rerun

Spec == Init /\ [][Next]_vars

----------------------------------------------------------------------------
(* Vocabulary of the properties *)

Indices == 1 .. Len(images)

\* the records whose file had, at discovery, the content record i's file had
SameContent(i) == {j \in Indices : disc[images[j].orig] = disc[images[i].orig]}

KeepsPath(i) == images[i].path = images[i].orig
IsMarked(i) == images[i].path = DuplicateName(images[i].orig)

\* the path textually ends in ".duplicate"
EndsInSentinel(path) == Len(path) >= 2 /\ Last(path) = DUPLICATE_EXTENSION

\* the path lies below a directory, other than the root, whose name starts
\* with '.'
UnderHidden(path) ==
  \E d \in Ancestors(Dir(path)) \ {Root} : StartsWithDot(DirName(d))

RECURSIVE SumBytes(_)
SumBytes(rs) == IF rs = <<>> THEN 0 ELSE rs[1].bytes + SumBytes(Tail(rs))

----------------------------------------------------------------------------
\* C1: when discovery, sort and mark_duplicates have run to completion, in
\* each group of discovered files of identical content exactly one file
\* keeps its original path and every other one has been renamed to its path
\* plus ".duplicate".
C1_EveryGroupMarked ==
  pc = "done" =>
    \A i \in Indices :
      /\ Cardinality({j \in SameContent(i) : KeepsPath(j)}) = 1
      /\ \A j \in SameContent(i) : KeepsPath(j) \/ IsMarked(j)

C5_SummaryMatches ==
  pc = "done" =>
    /\ duplicate_count = Len(renames)
    /\ duplicate_count = Len(logged)
    /\ duplicate_size = SumBytes(renames)

\* C6: when the root does not exist the program warns and completes: no
\* record, no rename, no log line, no panic.
C6_MissingRootCompletes ==
  Root \notin dirs =>
    /\ pc # "panic"
    /\ pc # "main" => warned
    /\ images = <<>> /\ renames = <<>> /\ logged = <<>>

\* C7: a permission-denied error during discovery never aborts the run; only
\* another traversal error does.
C7_PermissionDeniedSkips ==
  pc = "panic" => error_kind # <<"PermissionDenied">>

----------------------------------------------------------------------------
HasSentinel(path) == Extension(path) = <<DUPLICATE_EXTENSION>>

\* C3: a file whose path has the extension "duplicate" is left out of the
\* record set, never hashed and never renamed; no record is renamed twice and
\* no path ever ends in ".duplicate.duplicate".
C3_NoDoubleSentinel ==
  /\ \A i \in Indices : ~HasSentinel(images[i].orig)
  /\ \A k \in DOMAIN digests : ~HasSentinel(digests[k].path)
  /\ \A k \in DOMAIN renames : ~HasSentinel(renames[k].from)
  /\ \A k, m \in DOMAIN renames : renames[k].orig = renames[m].orig => k = m
  /\ \A k \in DOMAIN renames : ~EndsInSentinel(renames[k].from)

\* C3 (amended): as C3, but a rename yields a path ending in
\* ".duplicate.duplicate" exactly for a file named ".duplicate", which has no
\* extension.
C3_NoSecondRename ==
  /\ \A i \in Indices : ~HasSentinel(images[i].orig)
  /\ \A k \in DOMAIN digests : ~HasSentinel(digests[k].path)
  /\ \A k \in DOMAIN renames : ~HasSentinel(renames[k].from)
  /\ \A k, m \in DOMAIN renames : renames[k].orig = renames[m].orig => k = m
  /\ \A k \in DOMAIN renames :
       EndsInSentinel(renames[k].from) <=>
         FileName(renames[k].from) = <<"", DUPLICATE_EXTENSION>>

\* a finished run that left an existing duplicate out and skipped, as base,
\* a record it had renamed
C3_Witness ==
  /\ pc = "done"
  /\ existing_count > 0
  /\ \E i \in Indices : IsMarked(i) /\ i < Len(images)

----------------------------------------------------------------------------
\* C4: hashes are compared only between records of equal size, a record is
\* marked duplicate only of a base of equal size, and a record whose size no
\* other record has is never hashed and never renamed.
C4_OnlyEqualSizes ==
  /\ \A pr \in compared : Size(disc[pr[1]]) = Size(disc[pr[2]])
  /\ \A k \in DOMAIN renames :
       Size(disc[renames[k].orig]) = Size(disc[renames[k].of])
  /\ \A i \in Indices :
       (\A j \in Indices \ {i} : images[j].size # images[i].size) =>
         /\ KeepsPath(i)
         /\ images[i].hash = <<>>
         /\ \A k \in DOMAIN digests : digests[k].orig # images[i].orig

\* a finished run with a rename, beside a record of a size of its own
C4_Witness ==
  /\ pc = "done"
  /\ renames # <<>>
  /\ \E i \in Indices : \A j \in Indices \ {i} : images[j].size # images[i].size

----------------------------------------------------------------------------
\* below a directory that could not be read or searched
Unreachable(path) == \E d \in Ancestors(Dir(path)) : ReadFault(d) # "ok"

\* C7 (amended): a permission-denied error the walker yields for a directory
\* skips that directory only and the walk goes on; the run is aborted by
\* any other error of the walker, a missing root included, and by a failure
\* to read the metadata of a file, a permission-denied one included.
C7_WalkerDeniedSkips ==
  /\ pc = "panic" =>
       \/ error_kind = <<"NotFound">> /\ Root \notin dirs
       \/ error_kind = <<"Other">>
            /\ \E d \in erred : ReadFault(d) = "ioerr"
       \/ error_kind = <<"PermissionDenied">>
            /\ \E p \in yielded : Len(p) >= 2 /\ ReadFault(Dir(p)) = "noexec"
  /\ (\E d \in erred : ReadFault(d) = "ioerr") => pc = "panic"
  /\ pc = "sort" =>
       \A p \in DOMAIN fs :
         (~UnderHidden(p) /\ ~Unreachable(p) /\ ~HasSentinel(p)) =>
           \E i \in Indices : images[i].orig = p

\* a finished run that skipped a directory it was denied, with a file in
\* it, and discovered a file elsewhere
C7_Witness ==
  /\ pc = "done"
  /\ \E d \in erred : \E p \in DOMAIN fs : Dir(p) = d
  /\ Len(images) >= 1

\* C8: no file below a hidden directory other than the root is a record, is
\* hashed, is renamed or is named in a log line; a root whose own name
\* starts with '.' is walked like any other.
C8_HiddenPruned ==
  /\ \A i \in Indices : ~UnderHidden(images[i].orig)
  /\ \A k \in DOMAIN digests : ~UnderHidden(digests[k].path)
  /\ \A k \in DOMAIN renames : ~UnderHidden(renames[k].from)
  /\ \A k \in DOMAIN logged :
       /\ ~UnderHidden(logged[k].duplicate)
       /\ ~UnderHidden(logged[k].original)
       /\ ~UnderHidden(logged[k].log)
  /\ pc = "sort" =>
       \A p \in DOMAIN fs :
         (~UnderHidden(p) /\ ~Unreachable(p) /\ ~HasSentinel(p)) =>
           \E i \in Indices : images[i].orig = p

\* a finished run on a root named with a leading '.', with a rename, while
\* a file of the same content lies below a hidden directory
C8_Witness ==
  /\ pc = "done"
  /\ StartsWithDot(rootName)
  /\ renames # <<>>
  /\ \E p \in DOMAIN fs :
       UnderHidden(p) /\ fs[p].content = disc[renames[1].orig]

----------------------------------------------------------------------------
\* C9: in a run the content of each discovered file is digested at most once.
C9_DigestedOnce ==
  \A k, m \in DOMAIN digests : digests[k].orig = digests[m].orig => k = m

\* a base compared with two candidates, one of which was a base afterwards
C9_Witness ==
  \E x, y, z \in DOMAIN disc :
    /\ y # z
    /\ {<<x, y>>, <<x, z>>, <<y, z>>} \subseteq compared

----------------------------------------------------------------------------
\* C10: every log line written names as duplicate the path a record was
\* renamed to and as original a record that has not been renamed and is not
\* renamed later in the run; the renames are at most one ahead of the lines.
C10_LogNamesKeptOriginal ==
  /\ Len(logged) <= Len(renames)
  /\ Len(renames) <= Len(logged) + 1
  /\ \A k \in DOMAIN logged :
       /\ logged[k].duplicate = renames[k].to
       /\ logged[k].dup_orig = renames[k].orig
       /\ logged[k].original = logged[k].base_orig
       /\ ~HasSentinel(logged[k].original)
       /\ \A m \in DOMAIN renames : renames[m].orig # logged[k].base_orig

\* a second rename made, its log line not yet written
C10_Witness ==
  pc = "log" /\ Len(renames) = 2 /\ Len(logged) = 1

====
